---- MODULE Spec2Model ----
(***************************************************************************)
(* Credit decision pipeline: the two orchestrators                         *)
(*   OrchestratorAgent.process_application (CreditDecisionAgent_MultiAgent) *)
(*   run_credit_decision                   (CreditDecisionAgent)            *)
(* over the record store tools of CreditDecisionStrandsDBTools.            *)
(*                                                                         *)
(* JSON values are records; an optional value (Python None / key absent)   *)
(* is a set with at most one element: {} is None, {v} is v.  Strings that  *)
(* are compared after a case conversion are sequences of characters.       *)
(* Timestamps (datetime.now) are left out of the payloads.                 *)
(***************************************************************************)
EXTENDS Integers, Sequences, FiniteSets, TLC

VARIABLES
    store,       \* credit_applications: id -> row, for the ids that have a row
    pc,          \* per run: the statement the orchestrator is at
    orch,        \* per run: which orchestrator runs ("multi" / "single")
    aid,         \* per run: the application_id argument (0 before the call)
    applicant,   \* per run: the normalized applicant dict ({} before the fetch)
    out,         \* per run: step -> output, for the steps that have returned
    progress,    \* per run: progress / progress_messages list
    exc,         \* per run: the exception caught by the except clause ({} if none)
    ret,         \* per run: the value returned to the caller
    received,    \* per run: step -> the arguments the step was invoked with
    log,         \* per run: history of the calls made and exceptions raised, in order
    dbFailures,  \* number of store calls that have failed so far
    ui,          \* the UI submit handler: its position and locals
    call,        \* the last direct call of a record store tool and its response
    conv,        \* the last numeric coercion: its argument and result
    cli,         \* the command-line entry point: argv and what it printed
    lam,         \* the stop-instances Lambda handler: event, environment, outcome
    mcp          \* the records service: the request and what it did

\* the variables of the services beside the credit pipeline
svcVars == <<lam, mcp>>

\* the variables outside the orchestrator runs
envVars == <<ui, call, conv, cli, svcVars>>

vars == <<store, pc, orch, aid, applicant, out, progress, exc, ret, received, log, dbFailures,
          envVars>>

-----------------------------------------------------------------------------
(* Bounds and input sets *)

\* at most this many store calls fail in one behaviour
MaxStoreFailures == 1

Runs == {"r1", "r2"}
Orchestrators == {"multi", "single"}
Steps == 1..4

\* identifiers: 41 and 42 have a row, 7 has none; runs are started on 42 and on 7
PresentIds == {41, 42}
MissingIds == {7}
RunIds == {42} \cup MissingIds

None == {}
Some(v) == {v}
Val(opt) == CHOOSE v \in opt : TRUE

-----------------------------------------------------------------------------
(* Characters and str.upper() *)

LowerLetters == <<"a","b","c","d","e","f","g","h","i","j","k","l","m",
                  "n","o","p","q","r","s","t","u","v","w","x","y","z">>
UpperLetters == <<"A","B","C","D","E","F","G","H","I","J","K","L","M",
                  "N","O","P","Q","R","S","T","U","V","W","X","Y","Z">>

UpperChar(c) ==
    IF \E i \in 1..26 : LowerLetters[i] = c
    THEN UpperLetters[CHOOSE i \in 1..26 : LowerLetters[i] = c]
    ELSE c

Upper(s) == [i \in 1..Len(s) |-> UpperChar(s[i])]

\* a JSON value v under .get("decision", ""): a string, or null (None)
StrVal(s) == [t |-> "str", s |-> s]
NullVal == [t |-> "null", s |-> <<>>]

\* Python str(v)
Str(v) == IF v.t = "str" THEN v.s ELSE <<"N","o","n","e">>

APPROVE == <<"A","P","P","R","O","V","E">>
DENY == <<"D","E","N","Y">>

\* the decision strings tried as the model's reply
DecisionWords ==
    { <<"a","p","p","r","o","v","e">>, APPROVE, <<"A","p","p","r","o","v","e">>,
      <<"d","e","n","y">>, DENY, <<"D","e","n","Y">>,
      <<"a","p","p","r","o","v","e","d">>, <<"R","E","F","E","R">>, <<>> }

-----------------------------------------------------------------------------
(* Step outputs (JSON values) and the model's raw replies *)

\* kind: "object" (a parsed JSON object), "text" ({analysis, format} envelope),
\* "error" ({error, ...} envelope), "scalar" (JSON that is not an object).
\* body names the content; error is the value under the key "error", agent the
\* value under the key "agent".
BlankOutput ==
    [kind |-> "scalar", body |-> "", error |-> None, agent |-> None, decision |-> None,
     confidence |-> None, reason |-> None, detailed_reasoning |-> None]

IsDict(o) == o.kind \in {"object", "text", "error"}
HasErrorKey(o) == IsDict(o) /\ o.error # None

StepBody == <<"profile", "risk", "decision", "audit">>

\* a JSON object reply of step k without decision fields
PlainDoc(k) == [BlankOutput EXCEPT !.kind = "object", !.body = StepBody[k]]

\* a JSON object reply of the decision step
DecisionDoc(d, c, r, dr) ==
    [BlankOutput EXCEPT !.kind = "object", !.body = StepBody[3], !.decision = d,
                        !.confidence = c, !.reason = r, !.detailed_reasoning = dr]

\* a reply that is valid JSON but not an object (a list, a number, null)
ScalarDoc == [BlankOutput EXCEPT !.body = "list"]

DecisionValues == {None, Some(NullVal)} \cup {Some(StrVal(w)) : w \in DecisionWords}

DecisionDocs ==
    {DecisionDoc(d, Some(88), None, None) : d \in DecisionValues}
    \cup {DecisionDoc(Some(StrVal(w)), c[1], c[2], c[3]) :
             w \in {APPROVE, <<"d","e","n","y">>, <<"R","E","F","E","R">>},
             c \in {<<None, None, None>>, <<Some(61), Some("why"), Some("why in detail")>>}}
    \cup {ScalarDoc}

\* what the hosted model does for one call: the call fails, or it answers text
\* that is not JSON, or text that parses to doc
RawFail == [t |-> "fail", doc |-> BlankOutput]
RawText == [t |-> "nonjson", doc |-> BlankOutput]
RawJson(doc) == [t |-> "json", doc |-> doc]

Replies(k) ==
    {RawFail, RawText}
    \cup {RawJson(d) : d \in (IF k = 3 THEN DecisionDocs ELSE {PlainDoc(k)})}

AgentName == <<"DataCollector", "RiskAssessor", "DecisionMaker", "Auditor">>
ToolPrefix == <<"Bedrock data collection failed: ", "Bedrock risk assessment failed: ",
                "Bedrock decision failed: ", "Bedrock audit failed: ">>
ErrText == "ServiceUnavailable"

\* variant: a failed call is wrapped like unparseable text
MultiInvokeBedrock_FailureAsText(k, raw) ==
    CASE raw.t \in {"fail", "nonjson"} ->
            [BlankOutput EXCEPT !.kind = "text", !.body = "raw text",
                                !.agent = IF k = 2 THEN Some(AgentName[k]) ELSE None]
      [] OTHER -> raw.doc

\* <Agent>._invoke_bedrock of the multi-agent file, for the agent of step k
MultiInvokeBedrock(k, raw) ==
    CASE raw.t = "fail" ->
            [BlankOutput EXCEPT !.kind = "error", !.agent = Some(AgentName[k]),
                                !.error = Some(<<ErrText>>)]
      [] raw.t = "nonjson" ->
            [BlankOutput EXCEPT !.kind = "text", !.body = "raw text",
                                !.agent = IF k = 2 THEN Some(AgentName[k]) ELSE None]
      [] OTHER -> raw.doc

\* variant: text that does not parse is reported like a failed call
SingleStepTool_ParseFailureAsError(k, raw) ==
    CASE raw.t \in {"fail", "nonjson"} ->
            [json |-> TRUE,
             v |-> [BlankOutput EXCEPT !.kind = "error",
                                       !.error = Some(<<ToolPrefix[k], ErrText>>)]]
      [] OTHER -> [json |-> TRUE, v |-> raw.doc]

\* the JSON string a step tool of the single-file orchestrator returns:
\* json is whether the string parses, v the value it parses to
SingleStepTool(k, raw) ==
    CASE raw.t = "fail" ->
            [json |-> TRUE,
             v |-> [BlankOutput EXCEPT !.kind = "error",
                                       !.error = Some(<<ToolPrefix[k], ErrText>>)]]
      [] raw.t = "nonjson" ->
            [json |-> TRUE, v |-> [BlankOutput EXCEPT !.kind = "text", !.body = "raw text"]]
      [] OTHER -> [json |-> TRUE, v |-> raw.doc]

\* run_credit_decision: try json.loads(x_raw) except {"raw": x_raw}
SingleLoads(toolret) ==
    IF toolret.json THEN toolret.v
    ELSE [BlankOutput EXCEPT !.kind = "object", !.body = "raw"]

StepOutput(o, k, raw) ==
    IF o = "multi" THEN MultiInvokeBedrock(k, raw) ELSE SingleLoads(SingleStepTool(k, raw))

-----------------------------------------------------------------------------
(* The record store (table credit_applications) and its tools *)

\* agent_output column: processing_status ("" when the key is absent), the step
\* outputs present (outs[1] data_collection, outs[2] risk_assessment,
\* outs[3] final_decision, outs[4] audit_report), the progress list, the applicant
EmptyAO == [processing_status |-> "", outs |-> <<>>, progress |-> <<>>, applicant |-> None]

Row(fields, status, reason, confidence, ao) ==
    [fields |-> fields, application_status |-> status, decision_reason |-> reason,
     decision_confidence |-> confidence, agent_output |-> ao]

\* what one call does at the store: it works, _get_db_conn() raises, or
\* cur.execute()/commit() raises
DbOutcomes == {"ok", "connect_failed", "execute_failed"}

\* variant: a missing row is answered with an empty row instead of not_found
get_application_EmptyRowWhenMissing(st, id, db) ==
    CASE db = "connect_failed" -> [error |-> Some("connection refused"), row |-> {}]
      [] db = "execute_failed" -> [error |-> Some("query_failed"), row |-> {}]
      [] id \notin DOMAIN st   -> [error |-> None, row |-> {Row("", "", None, None, EmptyAO)}]
      [] OTHER                 -> [error |-> None, row |-> {st[id]}]

\* get_application: the JSON it returns
get_application(st, id, db) ==
    CASE db = "connect_failed" -> [error |-> Some("connection refused"), row |-> {}]
      [] db = "execute_failed" -> [error |-> Some("query_failed"), row |-> {}]
      [] id \notin DOMAIN st   -> [error |-> Some("not_found"), row |-> {}]
      [] OTHER                 -> [error |-> None, row |-> {st[id]}]

\* variant: a status that is already final is not overwritten
update_application_status_KeepsFinal(st, id, status, reason, confidence, db) ==
    IF db = "ok" /\ id \in DOMAIN st
       /\ st[id].application_status \notin {"APPROVED", "DENIED", "REFER", "ERROR"}
    THEN [st EXCEPT ![id] =
            [@ EXCEPT !.application_status = status,
                      !.decision_reason = IF reason # None THEN reason ELSE @,
                      !.decision_confidence = IF confidence # None THEN confidence ELSE @]]
    ELSE st

\* variant: every call sets all three columns, a None argument as NULL
update_application_status_NoneClears(st, id, status, reason, confidence, db) ==
    IF db = "ok" /\ id \in DOMAIN st
    THEN [st EXCEPT ![id] =
            [@ EXCEPT !.application_status = status,
                      !.decision_reason = reason,
                      !.decision_confidence = confidence]]
    ELSE st

\* update_application_status: the table after the call
update_application_status(st, id, status, reason, confidence, db) ==
    IF db = "ok" /\ id \in DOMAIN st
    THEN [st EXCEPT ![id] =
            [@ EXCEPT !.application_status = status,
                      !.decision_reason = IF reason # None THEN reason ELSE @,
                      !.decision_confidence = IF confidence # None THEN confidence ELSE @]]
    ELSE st

\* variant: an update of a missing id creates the row
update_application_agent_output_Upsert(st, id, agent_output, db) ==
    IF db # "ok" THEN st
    ELSE [i \in DOMAIN st \cup {id} |->
             IF i = id THEN Row("", "PROCESSING", None, None, agent_output) ELSE st[i]]

\* update_application_agent_output: the table after the call
update_application_agent_output(st, id, agent_output, db) ==
    IF db = "ok" /\ id \in DOMAIN st
    THEN [st EXCEPT ![id] = [@ EXCEPT !.agent_output = agent_output]]
    ELSE st

\* cur.lastrowid of an insert: the next AUTO_INCREMENT id
NextId(st) == IF DOMAIN st = {} THEN 1 ELSE 1 + CHOOSE m \in DOMAIN st : \A i \in DOMAIN st : i <= m

\* insert_application: the table after the call; app holds the applicant fields,
\* application_status and agent_output
insert_application(st, app, db) ==
    IF db = "ok"
    THEN [i \in DOMAIN st \cup {NextId(st)} |->
             IF i = NextId(st)
             THEN Row(app.fields, app.application_status, None, None, app.agent_output)
             ELSE st[i]]
    ELSE st

\* the JSON a store tool returns: an error object, or inserted_id / updated_rows
NoResponse == [error |-> None, inserted_id |-> None, updated_rows |-> None, row |-> None]

ConnectError == [NoResponse EXCEPT !.error = Some("connection refused")]

\* {"inserted_id": cur.lastrowid} or {"error": "insert_failed", ...}
InsertResponse(st, db) ==
    CASE db = "connect_failed" -> ConnectError
      [] db = "execute_failed" -> [NoResponse EXCEPT !.error = Some("insert_failed")]
      [] OTHER                 -> [NoResponse EXCEPT !.inserted_id = Some(NextId(st))]

\* {"updated_rows": cur.rowcount} or {"error": "update_failed", ...}; rowcount is
\* the number of rows the UPDATE changed. st2 is the table after the call
UpdateResponse(st, st2, db) ==
    CASE db = "connect_failed" -> ConnectError
      [] db = "execute_failed" -> [NoResponse EXCEPT !.error = Some("update_failed")]
      [] OTHER -> [NoResponse EXCEPT
                      !.updated_rows = Some(Cardinality({i \in DOMAIN st : st2[i] # st[i]}))]

\* get_application as a response: the row, or the error object
GetResponse(st, id, db) ==
    [NoResponse EXCEPT !.error = get_application(st, id, db).error,
                       !.row = get_application(st, id, db).row]

\* a direct tool call: the tool, its id argument, what the store did, the table
\* before the call and the response
ToolCall(tool, id, db, before, resp) ==
    [tool |-> tool, id |-> id, db |-> db, before |-> before, resp |-> resp]

NoCall == ToolCall("", 0, "ok", <<>>, NoResponse)

-----------------------------------------------------------------------------
(* The orchestrators: statements, payloads, final status *)

\* statements of a run: <<site, step>>
P(site, k) == <<site, k>>
Idle == P("idle", 0)
Returned == P("returned", 0)
InExcept == P("except", 0)

Restrict(outs, S) == [j \in S |-> outs[j]]

Msg(k, what) == [k |-> k, what |-> what]

StepStatusName == <<"step1_data_collection", "step2_risk_assessment",
                    "step3_decision", "step4_audit">>

\* variant: the write after step k still carries the outputs of 1..k-1 only
PartialKeys_WithoutLatest(p) == 1..(p[2] - 1)

\* the step outputs a partial write carries: before step k those of 1..k-1,
\* after step k those of 1..k
PartialKeys(p) == IF p[1] = "pre" THEN 1..(p[2] - 1) ELSE 1..p[2]

\* process_application: the dict of each update_application_agent_output call
\* made before the result is compiled
MultiPartial(p, prog, outs) ==
    [processing_status |-> StepStatusName[p[2]],
     outs |-> Restrict(outs, PartialKeys(p)),
     progress |-> prog,
     applicant |-> None]

\* variant: the partial write after the last step is already marked completed
SinglePartial_MarkedCompleted(p, prog, app, outs) ==
    [processing_status |-> IF p = <<"post", 4>> THEN "completed" ELSE "processing",
     outs |-> Restrict(outs, PartialKeys_WithoutLatest(p)),
     progress |-> prog,
     applicant |-> app]

\* run_credit_decision: the dict each _persist_partial call stores
SinglePartial(p, prog, app, outs) ==
    [processing_status |-> "processing",
     outs |-> Restrict(outs, PartialKeys(p)),
     progress |-> prog,
     applicant |-> app]

PartialPayload(o, p, prog, app, outs) ==
    IF o = "multi" THEN MultiPartial(p, prog, outs) ELSE SinglePartial(p, prog, app, outs)

\* variant: the compiled result carries only the messages of the last step
CompiledResult_LastStepMessages(prog, app, outs) ==
    [processing_status |-> "completed",
     outs |-> Restrict(outs, 1..4),
     progress |-> SubSeq(prog, Len(prog) - 1, Len(prog)),
     applicant |-> app]

\* the compiled result dict (both orchestrators)
CompiledResult(prog, app, outs) ==
    [processing_status |-> "completed",
     outs |-> Restrict(outs, 1..4),
     progress |-> prog,
     applicant |-> app]

\* variant: the decision string is compared without .upper()
MultiFinalStatus_CaseSensitive(final_decision) ==
    IF IsDict(final_decision)
    THEN LET got == IF final_decision.decision = None THEN StrVal(<<>>)
                    ELSE Val(final_decision.decision)
             decision_str == Str(got)
         IN  IF decision_str = APPROVE THEN "APPROVED"
             ELSE IF decision_str = DENY THEN "DENIED"
             ELSE "REFER"
    ELSE "REFER"

\* process_application: status from final_decision
MultiFinalStatus(final_decision) ==
    IF IsDict(final_decision)
    THEN LET got == IF final_decision.decision = None THEN StrVal(<<>>)
                    ELSE Val(final_decision.decision)
             decision_str == Upper(Str(got))
         IN  IF decision_str = APPROVE THEN "APPROVED"
             ELSE IF decision_str = DENY THEN "DENIED"
             ELSE "REFER"
    ELSE "REFER"

\* process_application: confidence and reason passed with the final status
MultiFinalConfidence(final_decision) ==
    IF IsDict(final_decision) THEN final_decision.confidence ELSE None

MultiFinalReason(final_decision) ==
    IF IsDict(final_decision)
    THEN IF final_decision.detailed_reasoning = None THEN Some("")
         ELSE final_decision.detailed_reasoning
    ELSE Some("Could not parse decision")

\* variant: the decision word itself is stored as the status
SingleFinalStatus_RawDecision(decision) ==
    LET decided == IF IsDict(decision)
                   THEN Some(Upper(Str(IF decision.decision = None THEN StrVal(<<>>)
                                       ELSE Val(decision.decision))))
                   ELSE None
    IN  IF decided = Some(APPROVE) THEN "APPROVE"
        ELSE IF decided = Some(DENY) THEN "DENY"
        ELSE "REFER"

\* run_credit_decision: status from decision
SingleFinalStatus(decision) ==
    LET decided == IF IsDict(decision)
                   THEN Some(Upper(Str(IF decision.decision = None THEN StrVal(<<>>)
                                       ELSE Val(decision.decision))))
                   ELSE None
    IN  IF decided = Some(APPROVE) THEN "APPROVED"
        ELSE IF decided = Some(DENY) THEN "DENIED"
        ELSE "REFER"

\* run_credit_decision: reason and confidence arguments of the final status write
SingleFinalReason(decision) == IF IsDict(decision) THEN decision.reason ELSE None

SingleFinalConfidence(decision) == IF IsDict(decision) THEN decision.confidence ELSE None

FinalStatus(o, d) == IF o = "multi" THEN MultiFinalStatus(d) ELSE SingleFinalStatus(d)
FinalReason(o, d) == IF o = "multi" THEN MultiFinalReason(d) ELSE SingleFinalReason(d)
FinalConfidence(o, d) ==
    IF o = "multi" THEN MultiFinalConfidence(d) ELSE SingleFinalConfidence(d)

\* variant: the next agent is called right after an agent returns
MultiNextPoint_CallsBackToBack(p) ==
    CASE p[1] = "fetch" -> P("mark", 0)
      [] p[1] = "mark"  -> P("pre", 1)
      [] p[1] = "pre"   -> P("call", p[2])
      [] p[1] = "call"  -> P("wait", p[2])
      [] p[1] = "wait"  -> IF p[2] < 4 THEN P("call", p[2] + 1) ELSE P("save", 0)
      [] p[1] = "post"  -> P("pre", p[2] + 1)
      [] p[1] = "save"  -> P("final", 0)
      [] OTHER          -> Returned

\* the statement after p in process_application
MultiNextPoint(p) ==
    CASE p[1] = "fetch" -> P("mark", 0)
      [] p[1] = "mark"  -> P("pre", 1)
      [] p[1] = "pre"   -> P("call", p[2])
      [] p[1] = "call"  -> P("wait", p[2])
      [] p[1] = "wait"  -> IF p[2] < 4 THEN P("post", p[2]) ELSE P("save", 0)
      [] p[1] = "post"  -> P("pre", p[2] + 1)
      [] p[1] = "save"  -> P("final", 0)
      [] OTHER          -> Returned

\* variant: the final status is written before the compiled result is saved
SingleNextPoint_StatusBeforeSave(p) ==
    CASE p[1] = "fetch" -> P("mark", 0)
      [] p[1] = "mark"  -> P("pre", 1)
      [] p[1] = "pre"   -> P("call", p[2])
      [] p[1] = "call"  -> P("wait", p[2])
      [] p[1] = "wait"  -> P("post", p[2])
      [] p[1] = "post"  -> IF p[2] < 4 THEN P("pre", p[2] + 1) ELSE P("final", 0)
      [] p[1] = "final" -> P("save", 0)
      [] OTHER          -> Returned

\* the statement after p in run_credit_decision
SingleNextPoint(p) ==
    CASE p[1] = "fetch" -> P("mark", 0)
      [] p[1] = "mark"  -> P("pre", 1)
      [] p[1] = "pre"   -> P("call", p[2])
      [] p[1] = "call"  -> P("wait", p[2])
      [] p[1] = "wait"  -> P("post", p[2])
      [] p[1] = "post"  -> IF p[2] < 4 THEN P("pre", p[2] + 1) ELSE P("save", 0)
      [] p[1] = "save"  -> P("final", 0)
      [] OTHER          -> Returned

NextPoint(o, p) == IF o = "multi" THEN MultiNextPoint(p) ELSE SingleNextPoint(p)

\* variant: a write that failed is made again
AfterStoreCall_Retry(o, p, db) == IF db = "ok" THEN NextPoint(o, p) ELSE p

\* the statement after a store write at p that ended db: the JSON the tool returns
\* is not looked at, so the run goes on the same way whether the write worked
AfterStoreCall(o, p, db) == NextPoint(o, p)

\* the arguments step k is called with: the applicant and the prior outputs
\* analyze(applicant); assess(applicant, data_collection);
\* decide(applicant, risk_assessment); audit(applicant, dc, risk, final_decision)
\* variant: every step is handed all the outputs there are so far
StepInputs_AllPrior(k) == 1..(k - 1)

StepInputs(k) == CASE k = 1 -> {} [] k = 2 -> {1} [] k = 3 -> {2} [] OTHER -> {1, 2, 3}

StepArgs(k, app, outs) == [applicant |-> app, prior |-> [j \in StepInputs(k) |-> outs[j]]]

\* values returned to the caller
NoRet == [kind |-> "none", error |-> "", message |-> None, detail |-> None,
          result |-> EmptyAO]
ResultRet(result) == [NoRet EXCEPT !.kind = "result", !.result = result]
ErrorRet(error, message) == [NoRet EXCEPT !.kind = "error", !.error = error, !.message = message]

\* process_application: {"error": "application_not_found"}
MultiNotFoundRet(app_row) == ErrorRet("application_not_found", None)
\* run_credit_decision: {"error": "application_not_found", "detail": app_row}
SingleNotFoundRet(app_row) ==
    [ErrorRet("application_not_found", None) EXCEPT !.detail = app_row.error]
NotFoundRet(o, app_row) ==
    IF o = "multi" THEN MultiNotFoundRet(app_row) ELSE SingleNotFoundRet(app_row)

MultiFailedRet(e) == ErrorRet("orchestration_failed", e)
SingleFailedRet(e) == ErrorRet("processing_failed", e)
FailedRet(o, e) == IF o = "multi" THEN MultiFailedRet(e) ELSE SingleFailedRet(e)

\* history entries: one per call a run makes; ok is whether a store call worked
Event(ev, k) ==
    [ev |-> ev, k |-> k, t |-> "", status |-> "", reason |-> None, confidence |-> None,
     ao |-> EmptyAO, ok |-> TRUE, doc |-> BlankOutput]
StatusEvent(ev, status, reason, confidence, db) ==
    [Event(ev, 0) EXCEPT !.status = status, !.reason = reason,
                         !.confidence = confidence, !.ok = (db = "ok")]
PersistEvent(ev, k, ao, db) == [Event(ev, k) EXCEPT !.ao = ao, !.ok = (db = "ok")]
ReturnEvent(k, raw) == [Event("return", k) EXCEPT !.t = raw.t, !.doc = raw.doc]

\* the submit handler before a submission: pc is where it is, app_id the inserted
\* id, result what the poll loop ended with, elapsed the seconds since poll_start
\* at the last timeout test, seen the application_status of the row last read,
\* timed_out whether the loop gave up, calls_at_end the number of calls the worker
\* had made when the loop ended
NoUI == [pc |-> "idle", app_id |-> None, result |-> None, elapsed |-> 0, seen |-> None,
         timed_out |-> FALSE, calls_at_end |-> 0]
\* no coercion yet; afterwards: the field, the raw value and the float returned
NoConv == [field |-> "", val |-> [t |-> "none", n |-> 0, s |-> <<>>], result |-> 0]
\* __main__: the module run, args.application_id ({} when the option is absent),
\* and what was printed ("" nothing yet, "usage", or "out" with the value in out)
NoCli == [pc |-> "idle", module |-> "multi", application_id |-> None, printed |-> "",
          out |-> NoRet]

\* the Lambda handler before an invocation
NoLambda == [pc |-> "idle", event |-> <<>>, env |-> <<>>, instance_ids |-> <<>>,
             called |-> FALSE, ret |-> [kind |-> "", stopped |-> <<>>]]

\* the records service before a request: who is called ("endpoint" for GET
\* /mcp/records, "function" for fetch_records), the table query parameter, the
\* name that was validated, the HTTP status answered (0 none), the exception
\* raised to the caller, and the table name of the statement executed
NoRequest == [pc |-> "idle", entry |-> "", table |-> None, table_name |-> <<>>, status |-> 0,
              raised |-> "", executed |-> None]

-----------------------------------------------------------------------------
(* Initial state *)

ApplicantFields(id) == <<"applicant fields of", id>>

\* the row the UI inserts on submission
FreshRow(id) == Row(ApplicantFields(id), "PROCESSING", None, None, EmptyAO)

\* the row an earlier, completed process_application run has left
EarlierOuts ==
    <<PlainDoc(1), PlainDoc(2),
      DecisionDoc(Some(StrVal(APPROVE)), Some(93), Some("earlier why"),
                  Some("earlier why in detail")),
      PlainDoc(4)>>
EarlierProgress ==
    <<Msg(1, "starting"), Msg(1, "completed"), Msg(2, "starting"), Msg(2, "completed"),
      Msg(3, "starting"), Msg(3, "completed"), Msg(4, "starting"), Msg(4, "completed")>>
EarlierRow(id) ==
    Row(ApplicantFields(id), MultiFinalStatus(EarlierOuts[3]), MultiFinalReason(EarlierOuts[3]),
        MultiFinalConfidence(EarlierOuts[3]),
        CompiledResult(EarlierProgress, Some(ApplicantFields(id)), EarlierOuts))

InitRows(id) == {FreshRow(id), EarlierRow(id)}

Init ==
    /\ store \in {[id \in PresentIds |-> IF id = 42 THEN row ELSE FreshRow(id)] :
                    row \in InitRows(42)}
    /\ pc = [r \in Runs |-> Idle]
    /\ orch = [r \in Runs |-> "multi"]
    /\ aid = [r \in Runs |-> 0]
    /\ applicant = [r \in Runs |-> None]
    /\ out = [r \in Runs |-> <<>>]
    /\ progress = [r \in Runs |-> <<>>]
    /\ exc = [r \in Runs |-> None]
    /\ ret = [r \in Runs |-> NoRet]
    /\ received = [r \in Runs |-> <<>>]
    /\ log = [r \in Runs |-> <<>>]
    /\ dbFailures = 0
    /\ ui = NoUI
    /\ call = NoCall
    /\ conv = NoConv
    /\ cli = NoCli
    /\ lam = NoLambda
    /\ mcp = NoRequest

-----------------------------------------------------------------------------
(* Actions *)

\* a store call ends db; failures are counted
DbCall(db) ==
    /\ db \in DbOutcomes
    /\ db # "ok" => dbFailures < MaxStoreFailures
    /\ dbFailures' = IF db = "ok" THEN dbFailures ELSE dbFailures + 1

Logged(r, e) == log' = [log EXCEPT ![r] = Append(@, e)]
Goto(r, p) == pc' = [pc EXCEPT ![r] = p]

\* the caller invokes orchestrator o with application_id id
StartRun(r, o, id) ==
    /\ pc[r] = Idle
    /\ ret[r] = NoRet
    /\ orch' = [orch EXCEPT ![r] = o]
    /\ aid' = [aid EXCEPT ![r] = id]
    /\ Goto(r, P("fetch", 0))
    /\ UNCHANGED <<envVars, store, applicant, out, progress, exc, ret, received, log, dbFailures>>

\* raw = get_application(id); error -> return application_not_found;
\* else normalize the applicant
Fetch(r, db) ==
    /\ pc[r] = P("fetch", 0)
    /\ DbCall(db)
    /\ LET app_row == get_application(store, aid[r], db)
       IN  IF app_row.error # None
           THEN /\ ret' = [ret EXCEPT ![r] = NotFoundRet(orch[r], app_row)]
                /\ Goto(r, Returned)
                /\ UNCHANGED applicant
           ELSE /\ applicant' = [applicant EXCEPT ![r] = Some(Val(app_row.row).fields)]
                /\ Goto(r, NextPoint(orch[r], pc[r]))
                /\ UNCHANGED ret
    /\ Logged(r, PersistEvent("get", 0, EmptyAO, db))
    /\ UNCHANGED <<envVars, store, orch, aid, out, progress, exc, received>>

\* update_application_status(application_id, "PROCESSING")
MarkProcessing(r, db) ==
    /\ pc[r] = P("mark", 0)
    /\ DbCall(db)
    /\ store' = update_application_status(store, aid[r], "PROCESSING", None, None, db)
    /\ Logged(r, StatusEvent("status", "PROCESSING", None, None, db))
    /\ Goto(r, AfterStoreCall(orch[r], pc[r], db))
    /\ UNCHANGED <<envVars, orch, aid, applicant, out, progress, exc, ret, received>>

\* before step k: append the "starting" message and persist the partial output
PersistBefore(r, db) ==
    /\ pc[r][1] = "pre"
    /\ DbCall(db)
    /\ LET prog == Append(progress[r], Msg(pc[r][2], "starting"))
           ao == PartialPayload(orch[r], pc[r], prog, applicant[r], out[r])
       IN  /\ progress' = [progress EXCEPT ![r] = prog]
           /\ store' = update_application_agent_output(store, aid[r], ao, db)
           /\ Logged(r, PersistEvent("persist", pc[r][2], ao, db))
    /\ Goto(r, AfterStoreCall(orch[r], pc[r], db))
    /\ UNCHANGED <<envVars, orch, aid, applicant, out, exc, ret, received>>

\* step k is called with the applicant and the prior outputs
Invoke(r) ==
    /\ pc[r][1] = "call"
    /\ LET k == pc[r][2]
       IN  /\ received' = [received EXCEPT ![r] =
                              [j \in DOMAIN @ \cup {k} |->
                                  IF j = k THEN StepArgs(k, applicant[r], out[r]) ELSE @[j]]]
           /\ Logged(r, Event("invoke", k))
    /\ Goto(r, NextPoint(orch[r], pc[r]))
    /\ UNCHANGED <<envVars, store, orch, aid, applicant, out, progress, exc, ret, dbFailures>>

\* step k returns; the "completed" message is appended
Return(r, raw) ==
    /\ pc[r][1] = "wait"
    /\ LET k == pc[r][2]
       IN  /\ raw \in Replies(k)
           /\ out' = [out EXCEPT ![r] =
                         [j \in DOMAIN @ \cup {k} |->
                             IF j = k THEN StepOutput(orch[r], k, raw) ELSE @[j]]]
           /\ progress' = [progress EXCEPT ![r] = Append(@, Msg(k, "completed"))]
           /\ Logged(r, ReturnEvent(k, raw))
    /\ Goto(r, NextPoint(orch[r], pc[r]))
    /\ UNCHANGED <<envVars, store, orch, aid, applicant, exc, ret, received, dbFailures>>

\* after step k: persist the partial output with the step's output
PersistAfter(r, db) ==
    /\ pc[r][1] = "post"
    /\ DbCall(db)
    /\ LET ao == PartialPayload(orch[r], pc[r], progress[r], applicant[r], out[r])
       IN  /\ store' = update_application_agent_output(store, aid[r], ao, db)
           /\ Logged(r, PersistEvent("persist", pc[r][2], ao, db))
    /\ Goto(r, AfterStoreCall(orch[r], pc[r], db))
    /\ UNCHANGED <<envVars, orch, aid, applicant, out, progress, exc, ret, received>>

\* compile result; update_application_agent_output(application_id, result)
SaveResult(r, db) ==
    /\ pc[r][1] = "save"
    /\ DbCall(db)
    /\ LET result == CompiledResult(progress[r], applicant[r], out[r])
       IN  /\ store' = update_application_agent_output(store, aid[r], result, db)
           /\ Logged(r, PersistEvent("save", 4, result, db))
    /\ Goto(r, AfterStoreCall(orch[r], pc[r], db))
    /\ UNCHANGED <<envVars, orch, aid, applicant, out, progress, exc, ret, received>>

\* map the decision to a status, write it with reason and confidence,
\* return {"result": result}
SetFinalStatus(r, db) ==
    /\ pc[r][1] = "final"
    /\ DbCall(db)
    /\ LET status == FinalStatus(orch[r], out[r][3])
           reason == FinalReason(orch[r], out[r][3])
           confidence == FinalConfidence(orch[r], out[r][3])
       IN  /\ store' = update_application_status(store, aid[r], status, reason, confidence, db)
           /\ Logged(r, StatusEvent("final", status, reason, confidence, db))
    /\ ret' = [ret EXCEPT ![r] = ResultRet(CompiledResult(progress[r], applicant[r], out[r]))]
    /\ Goto(r, AfterStoreCall(orch[r], pc[r], db))
    /\ UNCHANGED <<envVars, orch, aid, applicant, out, progress, exc, received>>

\* variant: the exception text is not passed as the reason
ErrorStatusWrite_WithoutReason(st, id, e, db) ==
    update_application_status(st, id, "ERROR", None, None, db)

\* variant: the error path also resets agent_output
ErrorStatusWrite_ClearsOutput(st, id, e, db) ==
    update_application_agent_output(
        update_application_status(st, id, "ERROR", e, None, db), id, EmptyAO, db)

\* the except clause: update_application_status(application_id, "ERROR", reason=str(e))
ErrorStatusWrite(st, id, e, db) == update_application_status(st, id, "ERROR", e, None, db)

TrySites == {"fetch", "mark", "pre", "call", "wait", "post", "save", "final"}
ExcTexts == {"boom"}

\* the statement a run is at raises e inside the try block
Throw(r, e) ==
    /\ pc[r][1] \in TrySites
    /\ exc[r] = None
    /\ exc' = [exc EXCEPT ![r] = Some(e)]
    /\ Goto(r, InExcept)
    /\ Logged(r, Event("raise", 0))
    /\ UNCHANGED <<envVars, store, orch, aid, applicant, out, progress, ret, received, dbFailures>>

\* except Exception as e: update_application_status(id, "ERROR", reason=str(e));
\* return the failure object
Except(r, db) ==
    /\ pc[r] = InExcept
    /\ DbCall(db)
    /\ store' = ErrorStatusWrite(store, aid[r], exc[r], db)
    /\ Logged(r, StatusEvent("error", "ERROR", exc[r], None, db))
    /\ ret' = [ret EXCEPT ![r] = FailedRet(orch[r], exc[r])]
    /\ Goto(r, Returned)
    /\ UNCHANGED <<envVars, orch, aid, applicant, out, progress, exc, received>>

\* the steps of a run that has been started
RunStep(r) ==
    \/ \E db \in DbOutcomes : Fetch(r, db)
    \/ \E db \in DbOutcomes : MarkProcessing(r, db)
    \/ \E db \in DbOutcomes : PersistBefore(r, db)
    \/ Invoke(r)
    \/ \E raw \in UNION {Replies(k) : k \in Steps} : Return(r, raw)
    \/ \E db \in DbOutcomes : PersistAfter(r, db)
    \/ \E db \in DbOutcomes : SaveResult(r, db)
    \/ \E db \in DbOutcomes : SetFinalStatus(r, db)

\* one orchestrator call on one identifier; no exception is raised in the try block
Next ==
    \/ \E o \in Orchestrators, id \in RunIds : StartRun("r1", o, id)
    \/ RunStep("r1")

Spec == Init /\ [][Next]_vars

\* the same, with exceptions raised inside the try block
NextFault ==
    \/ Next
    \/ \E e \in ExcTexts : Throw("r1", e)
    \/ \E db \in DbOutcomes : Except("r1", db)

SpecFault == Init /\ [][NextFault]_vars

-----------------------------------------------------------------------------
(* The UI submit handler: insert, run, background worker, poll loop, write-back *)

\* if time.time() - poll_start > 300
PollTimeout == 300
\* time.sleep(1)
PollSleep == 1

\* seconds between two timeout tests of the poll loop: the sleep and the read of
\* the row, which takes as long as the store takes (sampled: a third of the
\* timeout, or all of it)
TurnSeconds == {PollSleep + 99, PollTimeout}

\* the replies the hosted model gives to the runs started by the handler: the
\* first run gets a decision, the worker a decision, a failure or a bare scalar
UIReplies(r, k) ==
    IF k = 3
    THEN IF r = "r1"
         THEN {RawJson(DecisionDoc(Some(StrVal(APPROVE)), Some(88), None, None))}
         ELSE {RawJson(DecisionDoc(Some(StrVal(APPROVE)), Some(88), None, None)), RawFail,
               RawJson(ScalarDoc)}
    ELSE {RawJson(PlainDoc(k))}

\* a decision string as the text written to the status column
Text(w) ==
    CASE w = APPROVE -> "APPROVE"
      [] w = DENY -> "DENY"
      [] w = <<"a","p","p","r","o","v","e">> -> "approve"
      [] w = <<"A","p","p","r","o","v","e">> -> "Approve"
      [] w = <<"d","e","n","y">> -> "deny"
      [] w = <<"D","e","n","Y">> -> "DenY"
      [] w = <<"a","p","p","r","o","v","e","d">> -> "approved"
      [] w = <<"R","E","F","E","R">> -> "REFER"
      [] OTHER -> ""

\* decision = final_decision.get("decision") or "UNKNOWN"
WriteBackStatus(final_decision) ==
    IF final_decision.decision # None /\ Val(final_decision.decision).t = "str"
       /\ Val(final_decision.decision).s # <<>>
    THEN Text(Val(final_decision.decision).s)
    ELSE "UNKNOWN"

\* variant: giving up stops the worker
WorkerAfterTimeout_Stopped(p) == Returned

\* the poll loop's break on timeout does nothing to the worker thread
WorkerAfterTimeout(p) == p

UIFrame == UNCHANGED <<orch, aid, applicant, out, progress, exc, ret, received, log,
                       dbFailures, call, conv, cli, svcVars>>

\* the form is submitted: insert_application(applicant_data), app_id from the reply
UISubmit(db) ==
    /\ ui.pc = "idle"
    /\ LET app == [fields |-> ApplicantFields(NextId(store)),
                   application_status |-> "PROCESSING", agent_output |-> EmptyAO]
           resp == InsertResponse(store, db)
       IN  /\ store' = insert_application(store, app, db)
           /\ ui' = [ui EXCEPT !.app_id = resp.inserted_id,
                               !.pc = IF resp.inserted_id = None THEN "done" ELSE "run"]
    /\ UNCHANGED pc
    /\ UIFrame

\* the orchestrator is run for app_id before the worker is started: directly, or
\* by the agent, which calls the tool or does not; a run made here is followed
\* to its end without a raised exception
UIRunCall ==
    /\ ui.pc = "run"
    /\ StartRun("r1", "single", Val(ui.app_id))

\* the first run is over (or the agent made no call): start the worker thread
UISpawn ==
    /\ ui.pc = "run"
    /\ pc["r1"] \in {Idle, Returned}
    /\ ui' = [ui EXCEPT !.pc = "poll"]
    /\ UNCHANGED <<store, pc>>
    /\ UIFrame

\* _agent_worker: run_credit_decision(aid) in the background thread
UIWorkerCall ==
    /\ ui.pc \notin {"idle", "run"}
    /\ ui.app_id # None
    /\ StartRun("r2", "single", Val(ui.app_id))

\* one statement of a run started by the handler; the store works
UIRunStep(r) ==
    \/ Fetch(r, "ok")
    \/ MarkProcessing(r, "ok")
    \/ PersistBefore(r, "ok")
    \/ Invoke(r)
    \/ \E raw \in UNION {UIReplies(r, k) : k \in Steps} : Return(r, raw)
    \/ PersistAfter(r, "ok")
    \/ SaveResult(r, "ok")
    \/ SetFinalStatus(r, "ok")

\* one turn of the poll loop: read the row; stop when agent_output says completed;
\* stop when more than 300 s have passed; else sleep
UIPoll(seconds) ==
    /\ ui.pc = "poll"
    /\ LET row == Val(get_application(store, Val(ui.app_id), "ok").row)
           ended == [ui EXCEPT !.pc = "write_status", !.seen = Some(row.application_status),
                               !.calls_at_end = Len(log["r2"])]
       IN  IF row.agent_output.processing_status = "completed"
           THEN /\ ui' = [ended EXCEPT !.result = Some(row.agent_output)]
                /\ UNCHANGED pc
           ELSE IF ui.elapsed > PollTimeout
           THEN /\ ui' = [ended EXCEPT !.timed_out = TRUE]
                /\ pc' = [pc EXCEPT !["r2"] = WorkerAfterTimeout(@)]
           ELSE /\ ui' = [ui EXCEPT !.seen = Some(row.application_status),
                                    !.elapsed = IF @ + seconds > PollTimeout
                                                THEN PollTimeout + 1 ELSE @ + seconds]
                /\ UNCHANGED pc
    /\ UNCHANGED store
    /\ UIFrame

\* final_decision = result.get("final_decision", {}); decision = ... or "UNKNOWN";
\* update_application_status(app_id, decision, reason, confidence); an
\* AttributeError (result is None, final_decision is no dict) skips the write-back
UIWriteStatus ==
    /\ ui.pc = "write_status"
    /\ IF ui.result = None \/ ~IsDict(Val(ui.result).outs[3])
       THEN /\ ui' = [ui EXCEPT !.pc = "done"]
            /\ UNCHANGED store
       ELSE LET final_decision == Val(ui.result).outs[3]
            IN  /\ store' = update_application_status(store, Val(ui.app_id),
                                 WriteBackStatus(final_decision), final_decision.reason,
                                 final_decision.confidence, "ok")
                /\ ui' = [ui EXCEPT !.pc = "write_output"]
    /\ UNCHANGED pc
    /\ UIFrame

\* update_application_agent_output(app_id, result)
UIWriteOutput ==
    /\ ui.pc = "write_output"
    /\ store' = update_application_agent_output(store, Val(ui.app_id), Val(ui.result), "ok")
    /\ ui' = [ui EXCEPT !.pc = "done"]
    /\ UNCHANGED pc
    /\ UIFrame

NextUI ==
    \/ \E db \in DbOutcomes : UISubmit(db)
    \/ UIRunCall
    \/ UIRunStep("r1")
    \/ UISpawn
    \/ UIWorkerCall
    \/ UIRunStep("r2")
    \/ \E e \in ExcTexts : Throw("r2", e)
    \/ Except("r2", "ok")
    \/ \E seconds \in TurnSeconds : UIPoll(seconds)
    \/ UIWriteStatus
    \/ UIWriteOutput

SpecUI == Init /\ [][NextUI]_vars

-----------------------------------------------------------------------------
(* Two orchestrator calls on the same identifier at the same time *)

\* the replies the hosted model gives in the two runs
RaceReplies(k) ==
    IF k = 3
    THEN {RawJson(DecisionDoc(Some(StrVal(w)), Some(88), None, None)) : w \in {APPROVE, DENY}}
    ELSE {RawJson(PlainDoc(k))}

\* one statement of run r; the store works
RaceStep(r) ==
    \/ Fetch(r, "ok")
    \/ MarkProcessing(r, "ok")
    \/ PersistBefore(r, "ok")
    \/ Invoke(r)
    \/ \E raw \in UNION {RaceReplies(k) : k \in Steps} : Return(r, raw)
    \/ PersistAfter(r, "ok")
    \/ SaveResult(r, "ok")
    \/ SetFinalStatus(r, "ok")

\* two callers (threads, processes) run an orchestrator on identifier 42; their
\* statements interleave as the scheduler has it
NextRace ==
    \/ \E r \in Runs, o \in Orchestrators : StartRun(r, o, 42)
    \/ \E r \in Runs : RaceStep(r)

SpecRace == Init /\ [][NextRace]_vars

-----------------------------------------------------------------------------
(* Numeric coercion of applicant fields: _to_float *)

\* raw strings are at most this long
MaxTextLen == 3

\* floats are counted in ten-thousandths, so that 0.35 is 3500
Unit == 10000

\* the characters raw strings are made of; float() also accepts signs, exponents,
\* underscores between digits and the words inf / nan, which these do not spell
ConvChars == {"3", "5", ".", ",", "%", " ", "N"}
Digit == [c \in {"3", "5"} |-> IF c = "3" THEN 3 ELSE 5]

Texts == UNION {[1..n -> ConvChars] : n \in 0..MaxTextLen}

\* raw values of a field: None, a number, a string
NoneValue == [t |-> "none", n |-> 0, s |-> <<>>]
NumberValue(n) == [t |-> "num", n |-> n, s |-> <<>>]
TextValue(s) == [t |-> "str", n |-> 0, s |-> s]
RawValues == {NoneValue} \cup {NumberValue(n) : n \in {0, 75000 * Unit, 3500}}
                 \cup {TextValue(s) : s \in Texts}

CoercedFields == {"income", "dti_ratio", "existing_debts", "requested_credit"}

\* str.strip(): leading and trailing whitespace removed
RECURSIVE Strip(_)
Strip(s) ==
    IF s = <<>> THEN s
    ELSE IF Head(s) = " " THEN Strip(Tail(s))
    ELSE IF s[Len(s)] = " " THEN Strip(SubSeq(s, 1, Len(s) - 1))
    ELSE s

\* str.rstrip('%'): every trailing '%' removed
RECURSIVE RStripPercent(_)
RStripPercent(s) ==
    IF s # <<>> /\ s[Len(s)] = "%" THEN RStripPercent(SubSeq(s, 1, Len(s) - 1)) ELSE s

\* str.replace(',', '')
RemoveCommas(s) == SelectSeq(s, LAMBDA c : c # ",")

RECURSIVE Pow10(_)
Pow10(n) == IF n = 0 THEN 1 ELSE 10 * Pow10(n - 1)

RECURSIVE DigitsValue(_)
DigitsValue(s) == IF s = <<>> THEN 0 ELSE 10 * DigitsValue(SubSeq(s, 1, Len(s) - 1)) + Digit[s[Len(s)]]

\* a decimal numeral: digits with at most one point and at least one digit
IsNumeral(s) ==
    /\ \E i \in DOMAIN s : s[i] \in DOMAIN Digit
    /\ \A i \in DOMAIN s : s[i] \in DOMAIN Digit \cup {"."}
    /\ Cardinality({i \in DOMAIN s : s[i] = "."}) <= 1

NumeralValue(s) ==
    LET points == {i \in DOMAIN s : s[i] = "."}
        p == IF points = {} THEN Len(s) + 1 ELSE CHOOSE i \in points : TRUE
        whole == SubSeq(s, 1, p - 1)
        frac == SubSeq(s, p + 1, Len(s))
    IN  DigitsValue(whole) * Unit + (DigitsValue(frac) * Unit) \div Pow10(Len(frac))

\* float(s): surrounding whitespace is ignored; raised when s is not a numeral
PyFloat(s) ==
    IF IsNumeral(Strip(s)) THEN [raised |-> FALSE, v |-> NumeralValue(Strip(s))]
    ELSE [raised |-> TRUE, v |-> 0]

\* _to_float(val, percent_ok): what the try block computes
ToFloatTry(val, percent_ok) ==
    CASE val.t = "none" -> [raised |-> FALSE, v |-> 0]
      [] val.t = "num"  -> [raised |-> FALSE, v |-> val.n]
      [] OTHER ->
            LET str == Strip(val.s)
            IN  IF percent_ok /\ str # <<>> /\ str[Len(str)] = "%"
                THEN LET f == PyFloat(RemoveCommas(RStripPercent(str)))
                     IN  [raised |-> f.raised, v |-> f.v \div 100]
                ELSE PyFloat(RemoveCommas(str))

\* _to_float: except Exception: return 0.0
ToFloat(val, percent_ok) ==
    IF ToFloatTry(val, percent_ok).raised THEN 0 ELSE ToFloatTry(val, percent_ok).v

\* income_f = _to_float(income); dti_ratio_f = _to_float(dti_ratio, percent_ok=True); ...
Coerce(field, val) ==
    /\ conv.field = ""
    /\ conv' = [field |-> field, val |-> val, result |-> ToFloat(val, field = "dti_ratio")]
    /\ UNCHANGED <<store, pc, orch, aid, applicant, out, progress, exc, ret, received, log,
                   dbFailures, ui, call, cli, svcVars>>

NextCoerce == \E field \in CoercedFields, val \in RawValues : Coerce(field, val)

SpecCoerce == Init /\ [][NextCoerce]_vars

-----------------------------------------------------------------------------
(* The command-line entry points *)

\* --application_id values given on the command line; {} is no option at all
CliArgs == {None} \cup {Some(i) : i \in {0} \cup RunIds}

\* Python truth of args.application_id
Truthy(application_id) == application_id # None /\ Val(application_id) # 0

CliFrame == UNCHANGED <<store, pc, orch, aid, applicant, out, progress, exc, ret, received,
                        log, dbFailures, ui, call, conv, svcVars>>

\* args = p.parse_args()
CliParse(module, arg) ==
    /\ cli.pc = "idle"
    /\ cli' = [cli EXCEPT !.pc = "parsed", !.module = module, !.application_id = arg]
    /\ CliFrame

\* if args.application_id: ... else: print the usage text
CliBranch ==
    /\ cli.pc = "parsed"
    /\ cli' = IF Truthy(cli.application_id)
              THEN [cli EXCEPT !.pc = "calling"]
              ELSE [cli EXCEPT !.pc = "done", !.printed = "usage"]
    /\ CliFrame

\* out = run_credit_decision(args.application_id)
CliCall ==
    /\ cli.pc = "calling"
    /\ StartRun("r1", cli.module, Val(cli.application_id))

\* print(out)
CliPrint ==
    /\ cli.pc = "calling"
    /\ pc["r1"] = Returned
    /\ cli' = [cli EXCEPT !.pc = "done", !.printed = "out", !.out = ret["r1"]]
    /\ CliFrame

NextCli ==
    \/ \E module \in Orchestrators, arg \in CliArgs : CliParse(module, arg)
    \/ CliBranch
    \/ CliCall
    \/ RunStep("r1")
    \/ CliPrint

SpecCli == Init /\ [][NextCli]_vars

-----------------------------------------------------------------------------
(* The record store tools called directly *)

\* at most this many rows are inserted on top of the initial ones
MaxInserts == 1

ToolIds == RunIds
ToolStatuses == {"APPROVED", "ERROR"}
ToolReasons == {None, Some("why")}
ToolConfidences == {None, Some(88)}
ToolOutputs == {[EmptyAO EXCEPT !.processing_status = "completed"]}
ToolApps == {[fields |-> ApplicantFields(0), application_status |-> "PROCESSING",
              agent_output |-> EmptyAO]}

ToolFrame == UNCHANGED <<pc, orch, aid, applicant, out, progress, exc, ret, received, log,
                         dbFailures, ui, conv, cli, svcVars>>

CallInsert(app, db) ==
    /\ Cardinality(DOMAIN store) < Cardinality(PresentIds) + MaxInserts
    /\ store' = insert_application(store, app, db)
    /\ call' = ToolCall("insert_application", 0, db, store, InsertResponse(store, db))
    /\ ToolFrame

CallGet(id, db) ==
    /\ call' = ToolCall("get_application", id, db, store, GetResponse(store, id, db))
    /\ UNCHANGED store
    /\ ToolFrame

CallUpdateStatus(id, status, reason, confidence, db) ==
    /\ store' = update_application_status(store, id, status, reason, confidence, db)
    /\ call' = ToolCall("update_application_status", id, db, store,
                        UpdateResponse(store, store', db))
    /\ ToolFrame

CallUpdateOutput(id, agent_output, db) ==
    /\ store' = update_application_agent_output(store, id, agent_output, db)
    /\ call' = ToolCall("update_application_agent_output", id, db, store,
                        UpdateResponse(store, store', db))
    /\ ToolFrame

NextStore ==
    \/ \E app \in ToolApps, db \in DbOutcomes : CallInsert(app, db)
    \/ \E id \in ToolIds, db \in DbOutcomes : CallGet(id, db)
    \/ \E id \in ToolIds, status \in ToolStatuses, reason \in ToolReasons,
          confidence \in ToolConfidences, db \in DbOutcomes :
            CallUpdateStatus(id, status, reason, confidence, db)
    \/ \E id \in ToolIds, ao \in ToolOutputs, db \in DbOutcomes : CallUpdateOutput(id, ao, db)

SpecStore == Init /\ [][NextStore]_vars

-----------------------------------------------------------------------------
(* Properties *)

LowerChar(c) ==
    IF \E i \in 1..26 : UpperLetters[i] = c
    THEN LowerLetters[CHOOSE i \in 1..26 : UpperLetters[i] = c]
    ELSE c

\* s and t are the same string up to letter case
SameIgnoringCase(s, t) ==
    /\ Len(s) = Len(t)
    /\ \A i \in 1..Len(s) : LowerChar(s[i]) = LowerChar(t[i])

\* the string under the key 'decision' of a step-3 output, if there is one
DecisionString(o) ==
    IF IsDict(o) /\ o.decision # None /\ Val(o.decision).t = "str"
    THEN Some(Val(o.decision).s) ELSE None

Says(o, word) == DecisionString(o) # None /\ SameIgnoringCase(Val(DecisionString(o)), word)

MappedStatus(o) ==
    IF Says(o, <<"a","p","p","r","o","v","e">>) THEN "APPROVED"
    ELSE IF Says(o, <<"d","e","n","y">>) THEN "DENIED"
    ELSE "REFER"

FinalEvents(r) == {i \in DOMAIN log[r] : log[r][i].ev = "final"}
Last(l) == l[Len(l)]

\* the run has returned {"result": ...}
ReturnedResult(r) == pc[r] = Returned /\ ret[r].kind = "result"

\* C1: the status a run derives is APPROVED when the decision string of the step-3
\* output is 'approve' in any letter case, DENIED when it is 'deny' in any letter
\* case, and REFER in every other case (no key, another string, an envelope, not an
\* object), in both orchestrators
C1_FinalStatusByCaseInsensitiveMatch ==
    \A r \in Runs : \A i \in FinalEvents(r) :
        log[r][i].status = MappedStatus(out[r][3])

\* a mixed-case 'DenY' has been mapped to DENIED by run_credit_decision
C1_Witness ==
    \E r \in Runs :
        /\ orch[r] = "single"
        /\ FinalEvents(r) # {}
        /\ DecisionString(out[r][3]) = Some(<<"D","e","n","Y">>)
        /\ Last(log[r]).status = "DENIED"

DecisionStatuses == {"APPROVED", "DENIED", "REFER"}

StoredStatusIsDecision(r) ==
    /\ store[aid[r]].application_status \in DecisionStatuses
    /\ (~Says(out[r][3], APPROVE) /\ ~Says(out[r][3], DENY))
          => store[aid[r]].application_status = "REFER"

\* C2 as stated: after a run on an existing application has returned a result
\* object, the stored status is one of APPROVED, DENIED, REFER (so not PROCESSING),
\* and it is REFER when the decision is missing, not JSON or another string
C2_Original ==
    \A r \in Runs :
        (ReturnedResult(r) /\ aid[r] \in DOMAIN store) => StoredStatusIsDecision(r)

\* C2 amended: the same, for the runs whose final status write the store accepted
C2_StoredStatusAfterAcceptedWrite ==
    \A r \in Runs :
        (ReturnedResult(r) /\ aid[r] \in DOMAIN store /\ Last(log[r]).ok)
            => StoredStatusIsDecision(r)

\* a run whose decision step answered text that is not JSON has returned, and
\* the record that was PROCESSING is REFER
C2_Witness ==
    \E r \in Runs :
        /\ ReturnedResult(r) /\ aid[r] \in DOMAIN store /\ Last(log[r]).ok
        /\ out[r][3].kind = "text"
        /\ store[aid[r]].application_status = "REFER"

-----------------------------------------------------------------------------

\* the agent_output writes of a run: partial ones and the compiled result
WriteEvents(r) == {i \in DOMAIN log[r] : log[r][i].ev \in {"persist", "save"}}

\* the steps that had returned when the run made its i-th call
ReturnedBefore(r, i) == {log[r][j].k : j \in {j \in 1..(i - 1) : log[r][j].ev = "return"}}

\* C3: every agent_output value a run writes after step N has finished holds the
\* outputs of steps 1..N, each as the step returned it, and of no later step; the
\* writes made before step 1 has finished hold no step output
C3_PartialOutputHoldsFinishedSteps ==
    \A r \in Runs : \A i \in WriteEvents(r) :
        LET N == Cardinality(ReturnedBefore(r, i))
            written == log[r][i].ao.outs
        IN  /\ ReturnedBefore(r, i) = 1..N
            /\ DOMAIN written = 1..N
            /\ \A j \in 1..N : written[j] = out[r][j]

\* a write made after step 2 (and before step 3) has reached the record
C3_Witness ==
    \E r \in Runs : \E i \in WriteEvents(r) :
        /\ ReturnedBefore(r, i) = {1, 2}
        /\ log[r][i].ok
        /\ aid[r] \in DOMAIN store
        /\ store[aid[r]].agent_output = log[r][i].ao
        /\ DOMAIN store[aid[r]].agent_output.outs = {1, 2}

\* the order the claim gives: processing, then each step followed by the write
\* that hands its output to the store, then the final status
ClaimedOrder ==
    <<"processing", "llm1", "persist", "llm2", "persist", "llm3", "persist",
      "llm4", "persist", "final">>

StepLabel == <<"llm1", "llm2", "llm3", "llm4">>

\* a write that hands a step output to the store for the first time
HandsNewOutput(l, i) ==
    /\ l[i].ev \in {"persist", "save"}
    /\ \A j \in 1..(i - 1) :
          l[j].ev \in {"persist", "save"} => DOMAIN l[j].ao.outs # DOMAIN l[i].ao.outs
    /\ DOMAIN l[i].ao.outs # {}

IsMilestone(l, i) == l[i].ev \in {"status", "return", "final"} \/ HandsNewOutput(l, i)

Label(e) ==
    CASE e.ev = "status" -> "processing"
      [] e.ev = "return" -> StepLabel[e.k]
      [] e.ev = "final"  -> "final"
      [] OTHER           -> "persist"

RECURSIVE MilestonesUpTo(_, _)
MilestonesUpTo(l, n) ==
    IF n = 0 THEN <<>>
    ELSE IF IsMilestone(l, n) THEN Append(MilestonesUpTo(l, n - 1), Label(l[n]))
    ELSE MilestonesUpTo(l, n - 1)

Milestones(l) == MilestonesUpTo(l, Len(l))

IsPrefix(s, t) == Len(s) <= Len(t) /\ \A i \in 1..Len(s) : s[i] = t[i]

\* C4: the calls of a run come in the one order processing, step 1, write, step 2,
\* write, step 3, write, step 4, write, final status; the compiled result is
\* written after step 4 and before the final status, which is the last call;
\* a step is called only after the step before it has returned and its output was
\* given to a write; a call in flight is followed by its own return
C4_FixedOrder ==
    \A r \in Runs :
        LET l == log[r] IN
        /\ IsPrefix(Milestones(l), ClaimedOrder)
        /\ \A i \in DOMAIN l :
              /\ l[i].ev = "invoke" =>
                    /\ i < Len(l) => (l[i + 1].ev = "return" /\ l[i + 1].k = l[i].k)
                    /\ i = Len(l) => pc[r] = P("wait", l[i].k)
                    /\ \E j \in 1..(i - 1) : l[j].ev = "status" /\ l[j].status = "PROCESSING"
                    /\ l[i].k > 1 =>
                          \E j, h \in 1..(i - 1) :
                              /\ j < h
                              /\ l[j].ev = "return" /\ l[j].k = l[i].k - 1
                              /\ l[h].ev \in {"persist", "save"}
                              /\ (l[i].k - 1) \in DOMAIN l[h].ao.outs
                              /\ l[h].ao.outs[l[i].k - 1] = out[r][l[i].k - 1]
              /\ l[i].ev = "save" =>
                    /\ l[i].ao.processing_status = "completed"
                    /\ \E j \in 1..(i - 1) : l[j].ev = "return" /\ l[j].k = 4
              /\ l[i].ev = "final" =>
                    /\ i = Len(l)
                    /\ \E j \in 1..(i - 1) : l[j].ev = "save"

\* a run has made all its calls, the final status write last
C4_Witness ==
    \E r \in Runs :
        /\ pc[r] = Returned
        /\ Milestones(log[r]) = ClaimedOrder

-----------------------------------------------------------------------------

\* the steps whose model call failed (transport / service failure)
FailedSteps(r) == {log[r][i].k : i \in {i \in DOMAIN log[r] :
                                         log[r][i].ev = "return" /\ log[r][i].t = "fail"}}

\* the steps that are given step k's output
Consumers(k) == CASE k = 1 -> {2, 4} [] k = 2 -> {3, 4} [] k = 3 -> {4} [] OTHER -> {}

Count(l, ev, k) == Cardinality({i \in DOMAIN l : l[i].ev = ev /\ l[i].k = k})

\* the run went through every call once, all four steps included
RanToCompletion(r) ==
    /\ ReturnedResult(r)
    /\ ret[r].result.processing_status = "completed"
    /\ DOMAIN ret[r].result.outs = 1..4
    /\ \A k \in Steps : Count(log[r], "invoke", k) = 1 /\ Count(log[r], "return", k) = 1

Running(r) == pc[r] \notin {Idle, Returned}

InitStores ==
    {[id \in PresentIds |-> IF id = 42 THEN row ELSE FreshRow(id)] : row \in InitRows(42)}

\* C6: a run on an identifier without a row makes one call, the fetch: no status
\* write, no agent_output write, no step call; every row stays as it was; and it
\* returns the error application_not_found
C6_MissingIdIsNotFoundWithoutWrites ==
    \A r \in Runs :
        (pc[r] # Idle /\ aid[r] \notin DOMAIN store) =>
            /\ \A i \in DOMAIN log[r] : log[r][i].ev = "get"
            /\ Len(log[r]) <= 1
            /\ received[r] = <<>> /\ out[r] = <<>>
            /\ store \in InitStores
            /\ pc[r] \in {P("fetch", 0), Returned}
            /\ pc[r] = Returned =>
                  /\ Len(log[r]) = 1
                  /\ ret[r].kind = "error"
                  /\ ret[r].error = "application_not_found"

\* a run on identifier 7 has returned, the store answered not_found
C6_Witness ==
    \E r \in Runs :
        /\ aid[r] \in MissingIds /\ pc[r] = Returned
        /\ Last(log[r]).ok
        /\ ret[r].error = "application_not_found"

\* the store writes of a run that failed
FailedWrites(r) ==
    {i \in DOMAIN log[r] : log[r][i].ev \in {"status", "persist", "save"} /\ ~log[r][i].ok}

\* C9: when a write to the store fails during a run (the PROCESSING write, a
\* partial agent_output write, the compiled agent_output write) the run goes on
\* with the next statement: the write is not made again, the run can always take
\* its next step, and it returns the result after all four steps were called
C9_FailedWriteIsSkipped ==
    \A r \in Runs : \A i \in FailedWrites(r) :
        /\ pc[r] # InExcept
        /\ Running(r) => ENABLED RunStep(r)
        /\ pc[r] = Returned => RanToCompletion(r)
        /\ Count(log[r], "status", 0) <= 1
        /\ Count(log[r], "save", 4) <= 1
        /\ \A k \in Steps :
              /\ Count(log[r], "persist", k) <= 2
              /\ Count(log[r], "persist", k) = 2 => Count(log[r], "return", k) = 1
              /\ Cardinality({j \in DOMAIN progress[r] : progress[r][j].k = k}) <= 2
        /\ i < Len(log[r]) => log[r][i + 1] # log[r][i]

\* the partial write after step 2 failed, and the run returned the completed result
C9_Witness ==
    \E r \in Runs : \E i \in FailedWrites(r) :
        /\ log[r][i].ev = "persist" /\ DOMAIN log[r][i].ao.outs = {1, 2}
        /\ RanToCompletion(r)

\* C10 as stated: after a run has returned a result object (and the store accepted
\* the final status write) the stored reason and confidence are the ones taken
\* from the run's step-3 output, also on a record that carried a reason and a
\* confidence from an earlier run
C10_StoredReasonAndConfidenceAreThisRuns ==
    \A r \in Runs :
        (ReturnedResult(r) /\ aid[r] \in DOMAIN store /\ Last(log[r]).ok) =>
            /\ store[aid[r]].application_status = MappedStatus(out[r][3])
            /\ store[aid[r]].decision_confidence = FinalConfidence(orch[r], out[r][3])
            /\ store[aid[r]].decision_reason = FinalReason(orch[r], out[r][3])

-----------------------------------------------------------------------------

Raised(r) == exc[r] # None

RaiseEvents(r) == {i \in DOMAIN log[r] : log[r][i].ev = "raise"}

\* what the caller gets from a run that caught exception e
IsFailureObject(v, e) ==
    /\ v.kind = "error"
    /\ v.error \in {"orchestration_failed", "processing_failed"}
    /\ v.message = e

\* after a raise the run makes one more call, the ERROR status write with the
\* exception text, and returns the failure object
AbortsAndReports(r) ==
    /\ pc[r] \in {InExcept, Returned}
    /\ \A i \in RaiseEvents(r) : \A j \in DOMAIN log[r] :
          j > i => (j = i + 1 /\ log[r][j].ev = "error" /\ log[r][j].status = "ERROR"
                    /\ log[r][j].reason = exc[r])
    /\ pc[r] = Returned => (IsFailureObject(ret[r], exc[r]) /\ Last(log[r]).ev = "error")

StoredError(r) ==
    /\ store[aid[r]].application_status = "ERROR"
    /\ store[aid[r]].decision_reason = exc[r]

\* C7 as stated: once an exception is raised in a run no further call is made but
\* the ERROR write, the caller gets the failure object, and the record's status is
\* ERROR with the exception text as reason
C7_Original ==
    \A r \in Runs :
        Raised(r) =>
            /\ AbortsAndReports(r)
            /\ (pc[r] = Returned /\ aid[r] \in DOMAIN store) => StoredError(r)

\* C7 amended: the same, the record being ERROR with the exception text when the
\* store accepted that write; when the store failed on it the record is as the
\* raise left it and the caller still gets the failure object
C7_AbortReportsAndMarksErrorIfAccepted ==
    \A r \in Runs :
        Raised(r) =>
            /\ AbortsAndReports(r)
            /\ (pc[r] = Returned /\ aid[r] \in DOMAIN store /\ Last(log[r]).ok)
                  => StoredError(r)

\* step 3 was in flight when the exception was raised; the run returned the
\* failure object and the record is ERROR with the exception text
C7_Witness ==
    \E r \in Runs :
        /\ Raised(r) /\ pc[r] = Returned
        /\ DOMAIN received[r] = {1, 2, 3} /\ DOMAIN out[r] = {1, 2}
        /\ aid[r] \in DOMAIN store /\ StoredError(r)
        /\ IsFailureObject(ret[r], exc[r])

\* the agent_output writes of a run that the store accepted
AcceptedWrites(r) == {i \in WriteEvents(r) : log[r][i].ok}

\* C8: after an abort the stored agent_output is the last one the run wrote before
\* the exception (with the outputs of the steps finished by then), or the one the
\* record had before the run when no write was accepted: the error path does not
\* touch it
C8_AbortKeepsLastPartialOutput ==
    \A r \in Runs :
        (Raised(r) /\ aid[r] \in DOMAIN store) =>
            LET stored == store[aid[r]].agent_output
                acc == AcceptedWrites(r)
            IN  IF acc = {}
                THEN stored \in {row.agent_output : row \in InitRows(aid[r])}
                ELSE LET last == CHOOSE i \in acc : \A j \in acc : j <= i
                     IN  /\ stored = log[r][last].ao
                         /\ DOMAIN stored.outs = ReturnedBefore(r, last)
                         /\ \A k \in DOMAIN stored.outs : stored.outs[k] = out[r][k]

\* a run was aborted after the outputs of steps 1 and 2 were written: the record
\* is ERROR and its agent_output still holds these two outputs
C8_Witness ==
    \E r \in Runs :
        /\ Raised(r) /\ pc[r] = Returned
        /\ aid[r] \in DOMAIN store
        /\ store[aid[r]].application_status = "ERROR"
        /\ DOMAIN store[aid[r]].agent_output.outs = {1, 2}
        /\ store[aid[r]].agent_output.processing_status # "completed"

-----------------------------------------------------------------------------

\* the prior outputs the pipeline prescribes for step k
PrescribedInputs(k) == <<{}, {1}, {2}, {1, 2, 3}>>[k]

\* C18: step k is called with the applicant fields read at the start of the run and
\* with exactly the prescribed prior outputs of the same run, each identical to the
\* output every agent_output write of the run carries for that step
C18_StepsReceivePrescribedOutputs ==
    \A r \in Runs : \A k \in DOMAIN received[r] :
        LET args == received[r][k]
        IN  /\ aid[r] \in DOMAIN store
            /\ args.applicant = Some(store[aid[r]].fields)
            /\ DOMAIN args.prior = PrescribedInputs(k)
            /\ \A j \in DOMAIN args.prior :
                  /\ args.prior[j] = out[r][j]
                  /\ \A i \in WriteEvents(r) :
                        j \in DOMAIN log[r][i].ao.outs => log[r][i].ao.outs[j] = args.prior[j]

\* a finished run whose step 1 failed and whose step 4 was handed that error
\* object, the text envelope of step 2 and the decision of step 3
C18_Witness ==
    \E r \in Runs :
        /\ ReturnedResult(r)
        /\ DOMAIN received[r] = Steps
        /\ HasErrorKey(received[r][4].prior[1])
        /\ received[r][4].prior[2].kind = "text"
        /\ received[r][4].prior[3].decision = Some(StrVal(APPROVE))
        /\ received[r][3].prior[2] = received[r][4].prior[2]

-----------------------------------------------------------------------------

\* the return events of a run: what the hosted model did for each step call
ReturnEvents(r) == {i \in DOMAIN log[r] : log[r][i].ev = "return"}

TextEnvelope == [BlankOutput EXCEPT !.kind = "text", !.body = "raw text"]

ErrorEnvelope(message) == [BlankOutput EXCEPT !.kind = "error", !.error = Some(message)]

\* the message of an error envelope holds the text of the failure
CarriesFailureText(o) ==
    /\ o.error # None
    /\ \E i \in DOMAIN Val(o.error) : Val(o.error)[i] = ErrText

-----------------------------------------------------------------------------

UpdateTools == {"update_application_status", "update_application_agent_output"}

\* the response is an error object or the success value of the tool, never both
ErrorOrSuccess(c) ==
    LET success == CASE c.tool = "get_application" -> c.resp.row
                     [] c.tool = "insert_application" -> c.resp.inserted_id
                     [] OTHER -> c.resp.updated_rows
    IN  (c.resp.error # None) # (success # None)

\* C19: a store tool call ends with a response that is the success value or an
\* error object; a failed connection or statement leaves the table as it was and
\* is answered with an error object; an update of an id without a row answers
\* updated_rows 0 and changes nothing; a read changes nothing
C19_StoreToolsAnswerAndKeepTableOnFailure ==
    call.tool # "" =>
        /\ ErrorOrSuccess(call)
        /\ call.db # "ok" => (call.resp.error # None /\ store = call.before)
        /\ call.tool = "get_application" => store = call.before
        /\ (call.tool = "get_application" /\ call.db = "ok" /\ call.id \in DOMAIN call.before)
              => call.resp.row = Some(call.before[call.id])
        /\ (call.tool \in UpdateTools /\ call.db = "ok" /\ call.id \notin DOMAIN call.before)
              => (call.resp.updated_rows = Some(0) /\ store = call.before)
        /\ (call.tool \in UpdateTools /\ call.db = "ok")
              => \A i \in DOMAIN store : i # call.id => store[i] = call.before[i]
        /\ (call.tool = "insert_application" /\ call.db = "ok")
              => /\ Val(call.resp.inserted_id) \in DOMAIN store \ DOMAIN call.before
                 /\ \A i \in DOMAIN call.before : store[i] = call.before[i]
        /\ DOMAIN call.before \subseteq DOMAIN store

\* update_application_agent_output was called on an id without a row, the store
\* worked, and the answer is updated_rows 0
C19_Witness ==
    /\ call.tool = "update_application_agent_output"
    /\ call.db = "ok"
    /\ call.id \in MissingIds
    /\ call.resp.updated_rows = Some(0)
    /\ store = call.before

-----------------------------------------------------------------------------

\* C20: when the entry point is done it has run the orchestrator and printed its
\* result for every identifier given, and printed the usage text only when no
\* identifier was given
C20_CliPrintsResultForEveryIdentifier ==
    cli.pc = "done" =>
        /\ cli.application_id # None =>
              (cli.printed = "out" /\ pc["r1"] = Returned /\ cli.out = ret["r1"]
               /\ aid["r1"] = Val(cli.application_id))
        /\ cli.printed = "usage" => cli.application_id = None

-----------------------------------------------------------------------------

\* the value of a text that is a number after trimming whitespace and removing
\* commas, and 0 for any other text
NumberOrZero(s) ==
    LET text == Strip(RemoveCommas(s))
    IN  IF IsNumeral(text) THEN NumeralValue(text) ELSE 0

\* C17: coercion gives 0 for None and for a text that is not a number after
\* trimming and removing commas, the number itself for a number, and for the
\* debt-to-income ratio with a trailing '%' the number before it divided by 100
C17_CoercionGivesNumberOrZero ==
    conv.field # "" =>
        LET str == Strip(conv.val.s)
        IN  conv.result =
               CASE conv.val.t = "none" -> 0
                 [] conv.val.t = "num" -> conv.val.n
                 [] conv.field = "dti_ratio" /\ str # <<>> /\ str[Len(str)] = "%" ->
                       NumberOrZero(SubSeq(str, 1, Len(str) - 1)) \div 100
                 [] OTHER -> NumberOrZero(str)

-----------------------------------------------------------------------------

\* run r has just made a call: its history grew by one entry
JustCalled(r) == Len(log'[r]) = Len(log[r]) + 1

\* the write run r has just made replaced the column(s) it names, whatever the
\* other run has written or is doing, and left the other columns alone
ReplacedByWrite(r) ==
    LET e == Last(log'[r])
        old == store[aid[r]]
        new == store'[aid[r]]
    IN  /\ e.ev \in {"persist", "save"} =>
              new = [old EXCEPT !.agent_output = e.ao]
        /\ e.ev \in {"status", "final"} =>
              /\ new.application_status = e.status
              /\ new.decision_reason = IF e.reason # None THEN e.reason ELSE old.decision_reason
              /\ new.decision_confidence =
                    IF e.confidence # None THEN e.confidence ELSE old.decision_confidence
              /\ new.agent_output = old.agent_output

\* C13: two runs on the same identifier are never made to wait for each other,
\* and every write of either run replaces the whole agent_output, or the status,
\* as it stands, so that the last writer of each column wins
C13_WritesOfTwoRunsInterleaveUnchecked ==
    /\ [](\A r \in Runs : Running(r) => ENABLED RaceStep(r))
    /\ [][\A r \in Runs : JustCalled(r) => ReplacedByWrite(r)]_vars

\* both runs have finished; the stored agent_output is the result the first wrote,
\* with decision APPROVE, and the stored status is the one the second derived, DENIED
C13_Witness ==
    /\ ReturnedResult("r1") /\ ReturnedResult("r2")
    /\ aid["r1"] = aid["r2"]
    /\ store[aid["r1"]].agent_output = ret["r1"].result
    /\ ret["r1"].result.outs[3].decision = Some(StrVal(APPROVE))
    /\ ret["r2"].result.outs[3].decision = Some(StrVal(DENY))
    /\ store[aid["r1"]].application_status = "DENIED"

-----------------------------------------------------------------------------
(* The status column under the submit handler *)

\* the values of the status enum as they are stored (the orchestrators write the
\* referred outcome as REFER, the UI names it REFERRED)
StatusEnum == {"SUBMITTED", "PROCESSING", "APPROVED", "DENIED", "REFER", "REFERRED", "ERROR"}

\* C11: in every reachable state the status stored on every application record is
\* a value of the status enum; no operation stores the raw decision word or
\* 'UNKNOWN' in the status column.
C11_StoredStatusIsEnumValue ==
    \A id \in DOMAIN store : store[id].application_status \in StatusEnum

\* the statuses after which a record is no longer worked on
TerminalStatuses == {"APPROVED", "DENIED", "REFER", "REFERRED", "ERROR"}

\* C12: approved, denied, referred and error are terminal: once stored, no later
\* run on the same identifier and no UI write-back changes the status; the only
\* status changes ever made are submitted to processing and processing to one of
\* the terminal values.
C12_TerminalStatusNeverChanges ==
    [][\A id \in DOMAIN store :
          LET before == store[id].application_status
              after == store'[id].application_status
          IN  after # before =>
                 \/ before = "SUBMITTED" /\ after = "PROCESSING"
                 \/ before = "PROCESSING" /\ after \in TerminalStatuses]_vars

\* C14: the poll loop stops as soon as a poll observes a terminal status on the
\* record or when the 300 s timeout has elapsed: it never goes on to another
\* turn after a read that showed a terminal status, so a worker that ended in
\* status 'error' ends the poll at the next read.
C14_PollStopsOnTerminalStatus ==
    (ui.pc = "poll" /\ ui.seen # None) => Val(ui.seen) \notin TerminalStatuses

\* a statement the worker can execute next
WorkerStep == UIRunStep("r2") \/ Except("r2", "ok")

\* the poll loop gives up in this step
GivesUp == ~ui.timed_out /\ ui'.timed_out

\* the write the worker has just made is in the record: an output write replaced
\* agent_output, a status write set the status (and the reason and confidence it
\* carries)
WorkerWriteReachesRecord ==
    LET e == Last(log'["r2"])
        old == store[aid["r2"]]
        new == store'[aid["r2"]]
    IN  /\ e.ev \in {"persist", "save"} => new = [old EXCEPT !.agent_output = e.ao]
        /\ e.ev \in {"status", "final", "error"} =>
              /\ new.application_status = e.status
              /\ new.decision_reason = IF e.reason # None THEN e.reason ELSE old.decision_reason
              /\ new.decision_confidence =
                    IF e.confidence # None THEN e.confidence ELSE old.decision_confidence
              /\ new.agent_output = old.agent_output

\* C15: cancellation is not supported: when the poll loop gives up on timeout the
\* worker is neither stopped nor signalled (its position, its pending exception
\* and its return value are as before), it can take its next step for as long as
\* its run has not returned, and every write it makes after the poll ended still
\* reaches the record.
C15_TimeoutLeavesWorkerRunning ==
    /\ [][GivesUp => pc'["r2"] = pc["r2"] /\ exc' = exc /\ ret' = ret /\ store' = store]_vars
    /\ [](ui.timed_out /\ Running("r2") => ENABLED WorkerStep)
    /\ [][ui.timed_out /\ JustCalled("r2") => WorkerWriteReachesRecord]_vars

\* the poll gave up while the worker was in its run; the worker went on, returned
\* the completed result, and the record holds that result and the status APPROVED
C15_Witness ==
    /\ ui.timed_out /\ ui.pc = "done"
    /\ 0 < ui.calls_at_end /\ ui.calls_at_end < Len(log["r2"])
    /\ ReturnedResult("r2")
    /\ store[Val(ui.app_id)].agent_output = ret["r2"].result
    /\ store[Val(ui.app_id)].agent_output.processing_status = "completed"
    /\ store[Val(ui.app_id)].application_status = "APPROVED"

-----------------------------------------------------------------------------
(* The Lambda handler that stops EC2 instances *)

\* longest TARGET_INSTANCE_ID value
MaxEnvLen == 3

EnvChars == {"a", ",", " "}

\* values of the environment variable TARGET_INSTANCE_ID ("" when it is not set)
EnvValues == UNION {[1..n -> EnvChars] : n \in 0..MaxEnvLen}

IdA == <<"a">>
IdB == <<"b">>

\* values under a key of the event: a list of ids, a string, something else
ListValue(items) == [t |-> "list", items |-> items, s |-> <<>>]
StringValue(str) == [t |-> "str", items |-> <<>>, s |-> str]
OtherValue == [t |-> "other", items |-> <<>>, s |-> <<>>]

\* the invocation event: a dict with or without the two keys, or not a dict
EventOf(isdict, ids, id) == [dict |-> isdict, instance_ids |-> ids, instance_id |-> id]

Events ==
    {EventOf(TRUE, ids, id) :
        ids \in {None, Some(ListValue(<<>>)), Some(ListValue(<<IdA>>)),
                 Some(ListValue(<<IdA, IdB>>)), Some(StringValue(IdB))},
        id \in {None, Some(StringValue(IdB)), Some(StringValue(<<>>)), Some(OtherValue)}}
    \cup {EventOf(FALSE, None, None)}

\* str.split(","): the pieces between the commas
RECURSIVE SplitComma(_)
SplitComma(str) ==
    IF \A i \in DOMAIN str : str[i] # ","
    THEN <<str>>
    ELSE LET c == CHOOSE i \in DOMAIN str :
                      str[i] = "," /\ \A j \in 1..(i - 1) : str[j] # ","
         IN  <<SubSeq(str, 1, c - 1)>> \o SplitComma(SubSeq(str, c + 1, Len(str)))

\* [i.strip() for i in pieces if i.strip()]
RECURSIVE StripNonEmpty(_)
StripNonEmpty(pieces) ==
    IF pieces = <<>> THEN <<>>
    ELSE (IF Strip(Head(pieces)) = <<>> THEN <<>> ELSE <<Strip(Head(pieces))>>)
         \o StripNonEmpty(Tail(pieces))

\* the ids the event gives: instance_ids when it is a list, else instance_id when
\* it is a string, else none
EventIds(event) ==
    IF ~event.dict THEN <<>>
    ELSE IF event.instance_ids # None /\ Val(event.instance_ids).t = "list"
    THEN Val(event.instance_ids).items
    ELSE IF event.instance_id # None /\ Val(event.instance_id).t = "str"
    THEN <<Val(event.instance_id).s>>
    ELSE <<>>

\* if env_val: instance_ids = [i.strip() for i in env_val.split(",") if i.strip()]
EnvIds(env) == IF env = <<>> THEN <<>> ELSE StripNonEmpty(SplitComma(env))

\* lines 19-30: the ids of the event, and if that list is empty the ids of the
\* environment variable
ResolveInstanceIds(event, env) ==
    IF EventIds(event) # <<>> THEN EventIds(event) ELSE EnvIds(env)

LambdaFrame == UNCHANGED <<store, pc, orch, aid, applicant, out, progress, exc, ret, received,
                           log, dbFailures, ui, call, conv, cli, mcp>>

\* lambda_handler(event, context) up to the test of line 32: without ids it
\* returns no_instance_ids
LambdaResolve(event, env) ==
    /\ lam.pc = "idle"
    /\ LET ids == ResolveInstanceIds(event, env)
       IN  lam' = [lam EXCEPT !.event = event, !.env = env, !.instance_ids = ids,
                              !.pc = IF ids = <<>> THEN "done" ELSE "stop",
                              !.ret = IF ids = <<>>
                                      THEN [kind |-> "no_instance_ids", stopped |-> <<>>]
                                      ELSE @]
    /\ LambdaFrame

\* ec2.stop_instances(InstanceIds=instance_ids): the response is returned, a
\* ClientError is raised again
LambdaStop(ok) ==
    /\ lam.pc = "stop"
    /\ lam' = [lam EXCEPT !.pc = "done", !.called = TRUE,
                          !.ret = IF ok THEN [kind |-> "stopped", stopped |-> lam.instance_ids]
                                  ELSE [kind |-> "raised", stopped |-> <<>>]]
    /\ LambdaFrame

NextLambda ==
    \/ \E event \in Events, env \in EnvValues : LambdaResolve(event, env)
    \/ \E ok \in BOOLEAN : LambdaStop(ok)

SpecLambda == Init /\ [][NextLambda]_vars

\* the event contains instance_id as a string or instance_ids as a list
EventNamesInstances(event) ==
    /\ event.dict
    /\ \/ event.instance_ids # None /\ Val(event.instance_ids).t = "list"
       \/ event.instance_id # None /\ Val(event.instance_id).t = "str"

\* C21: the handler resolves the instances as its docstring says: when the event
\* contains instance_id (a string) or instance_ids (a list), the ids of the event
\* are the ones resolved and passed to StopInstances; only when the event contains
\* neither are the ids of TARGET_INSTANCE_ID used; with no id it returns
\* no_instance_ids and the EC2 API is not called.
C21_LambdaResolvesIdsAsDocumented ==
    lam.pc # "idle" =>
        /\ EventNamesInstances(lam.event) => lam.instance_ids = EventIds(lam.event)
        /\ ~EventNamesInstances(lam.event) => lam.instance_ids = EnvIds(lam.env)
        /\ lam.instance_ids = <<>> =>
              lam.pc = "done" /\ lam.ret.kind = "no_instance_ids" /\ ~lam.called
        /\ lam.called => lam.instance_ids # <<>>

-----------------------------------------------------------------------------
(* The record after a run that returned a result *)

\* the store's answers to the completed-output write and the final status write
SaveEvents(r) == {i \in DOMAIN log[r] : log[r][i].ev = "save"}

SaveAndFinalAccepted(r) ==
    \A i \in SaveEvents(r) \cup FinalEvents(r) : log[r][i].ok

\* the stored status is the mapping of the final_decision in the stored
\* agent_output, and the returned result is the stored agent_output
StoredAgreesWithResult(r) ==
    LET row == store[aid[r]]
    IN  /\ 3 \in DOMAIN row.agent_output.outs
        /\ row.application_status = MappedStatus(row.agent_output.outs[3])
        /\ ret[r].result = row.agent_output

\* C22 as stated: when a run with no other writer on the record returns a result
\* object, the stored status is the approve/deny/referred mapping of the
\* final_decision in the stored agent_output and the returned result equals the
\* stored agent_output
C22_Original ==
    \A r \in Runs :
        (ReturnedResult(r) /\ aid[r] \in DOMAIN store) => StoredAgreesWithResult(r)

\* C22 amended: the same, for the runs whose completed-output write and final
\* status write the store accepted
C22_StoredStatusAgreesWithStoredOutput ==
    \A r \in Runs :
        (ReturnedResult(r) /\ aid[r] \in DOMAIN store /\ SaveAndFinalAccepted(r))
            => StoredAgreesWithResult(r)

\* a run whose decision step said deny has returned; the record is DENIED and
\* holds the returned result, although an earlier partial write had failed
C22_Witness ==
    \E r \in Runs :
        /\ ReturnedResult(r) /\ aid[r] \in DOMAIN store /\ SaveAndFinalAccepted(r)
        /\ FailedWrites(r) # {}
        /\ store[aid[r]].application_status = "DENIED"
        /\ store[aid[r]].agent_output = ret[r].result

-----------------------------------------------------------------------------
(* What 'completed' in agent_output means *)

\* C23: in every reachable state, under any interleaving of runs and UI
\* write-backs, a stored agent_output with processing_status 'completed' holds all
\* four step outputs, and every agent_output write a run makes before step 4 has
\* returned carries a processing_status other than 'completed'.
C23_CompletedOutputHoldsAllFourSteps ==
    /\ \A id \in DOMAIN store :
          store[id].agent_output.processing_status = "completed"
              => DOMAIN store[id].agent_output.outs = Steps
    /\ \A r \in Runs : \A i \in WriteEvents(r) :
          4 \notin ReturnedBefore(r, i) => log[r][i].ao.processing_status # "completed"
    /\ \A k \in Steps : StepStatusName[k] # "completed"

\* the handler has written the completed output back while the worker, in its
\* own run on the record, has already made partial writes and is still running
C23_Witness ==
    /\ ui.pc = "done" /\ ui.result # None
    /\ Running("r2") /\ WriteEvents("r2") # {}
    /\ store[Val(ui.app_id)].agent_output.processing_status = "completed"
    /\ DOMAIN store[Val(ui.app_id)].agent_output.outs = Steps

-----------------------------------------------------------------------------
(* Orchestrator runs per form submission *)

\* the runs the submit handler has started
StartedRuns == {r \in Runs : pc[r] # Idle}

\* C24: one form submission starts at most one orchestrator run on the inserted
\* identifier: the LLM steps and the store writes for the record are executed
\* once, by the background worker.
C24_OneRunPerSubmission ==
    /\ Cardinality(StartedRuns) <= 1
    /\ \A k \in Steps :
          Cardinality({r \in Runs : \E i \in DOMAIN log[r] :
                          log[r][i].ev = "return" /\ log[r][i].k = k}) <= 1

-----------------------------------------------------------------------------
(* Completed output before final status *)

Completed(ao) == ao.processing_status = "completed" /\ DOMAIN ao.outs = Steps

\* every write of the PROCESSING status and of the compiled result that run r
\* has made was accepted by the store
MarkAndSaveAccepted(r) ==
    \A i \in DOMAIN log[r] : log[r][i].ev \in {"status", "save"} => log[r][i].ok

\* C25 as stated: within a run the completed agent_output is written before the
\* final status, so with a single run and no other writer a record whose status
\* is approved, denied or referred holds a completed agent_output with all four
\* outputs: never a final decision status together with a partial output
C25_Original ==
    \A r \in Runs :
        /\ \A i \in FinalEvents(r) : \E j \in SaveEvents(r) : j < i
        /\ \A id \in DOMAIN store :
              store[id].application_status \in DecisionStatuses
                  => Completed(store[id].agent_output)

\* C25 amended: the same, for the runs whose PROCESSING write and compiled-result
\* write the store accepted
C25_CompletedOutputBeforeFinalStatus ==
    /\ \A r \in Runs : \A i \in FinalEvents(r) : \E j \in SaveEvents(r) : j < i
    /\ (\A r \in Runs : MarkAndSaveAccepted(r)) =>
          \A id \in DOMAIN store :
              store[id].application_status \in DecisionStatuses
                  => Completed(store[id].agent_output)

\* a run has saved the compiled result and not yet written the final status: the
\* record shows a completed output together with the status PROCESSING
C25_Witness ==
    \E r \in Runs :
        /\ pc[r] = P("final", 0) /\ aid[r] \in DOMAIN store /\ MarkAndSaveAccepted(r)
        /\ Completed(store[aid[r]].agent_output)
        /\ store[aid[r]].agent_output = Last(log[r]).ao
        /\ store[aid[r]].application_status = "PROCESSING"

-----------------------------------------------------------------------------
(* The columns update_application_status writes *)

\* what a call update_application_status(id, status, reason, confidence) that
\* reached the store has done to the table
StatusUpdateFrame(id, status, reason, confidence) ==
    /\ DOMAIN store' = DOMAIN store
    /\ \A i \in DOMAIN store : i # id => store'[i] = store[i]
    /\ id \in DOMAIN store =>
          /\ store'[id].application_status = status
          /\ store'[id].decision_reason =
                IF reason # None THEN reason ELSE store[id].decision_reason
          /\ store'[id].decision_confidence =
                IF confidence # None THEN confidence ELSE store[id].decision_confidence
          /\ store'[id].fields = store[id].fields
          /\ store'[id].agent_output = store[id].agent_output

\* C26: update_application_status always writes the status column, writes the
\* reason column only when the reason argument is not None and the confidence
\* column only when the confidence argument is not None, leaves a column whose
\* argument is None as it was, and changes no column of any other record.
C26_StatusUpdateWritesOnlyGivenColumns ==
    [][\A id \in ToolIds, status \in ToolStatuses, reason \in ToolReasons,
         confidence \in ToolConfidences :
           CallUpdateStatus(id, status, reason, confidence, "ok")
               => StatusUpdateFrame(id, status, reason, confidence)]_vars

\* a record that carried a reason and the confidence 93 of an earlier run has been
\* marked ERROR with a new reason and no confidence: the confidence is still 93
C26_Witness ==
    /\ call.tool = "update_application_status" /\ call.db = "ok"
    /\ call.id \in DOMAIN call.before
    /\ call.before[call.id].decision_confidence = Some(93)
    /\ call.before[call.id].decision_reason # Some("why")
    /\ store[call.id].application_status = "ERROR"
    /\ store[call.id].decision_reason = Some("why")
    /\ store[call.id].decision_confidence = Some(93)

-----------------------------------------------------------------------------
(* application_not_found *)

\* C27: the orchestrator returns application_not_found only when no record with
\* the given identifier exists in the store; a failure to reach or query the store
\* during the fetch is not reported as a missing application.
C27_NotFoundOnlyForMissingRecord ==
    \A r \in Runs :
        (pc[r] = Returned /\ ret[r].kind = "error" /\ ret[r].error = "application_not_found")
            => aid[r] \notin DOMAIN store

-----------------------------------------------------------------------------
(* The progress log *)

\* a start entry and a finish entry for each step, in pipeline order
FullProgress ==
    <<Msg(1, "starting"), Msg(1, "completed"), Msg(2, "starting"), Msg(2, "completed"),
      Msg(3, "starting"), Msg(3, "completed"), Msg(4, "starting"), Msg(4, "completed")>>

\* the steps that had been started when the run made its i-th call, that call
\* included: those for which a partial write was made
StartedUpTo(r, i) == {log[r][j].k : j \in {j \in 1..i : log[r][j].ev = "persist"}}

\* C28: within one run the progress log stored in agent_output is append-only:
\* the log of each agent_output write has the log of every earlier write as a
\* prefix, it holds one entry for each step started and one for each step
\* finished so far, and the completed agent_output holds exactly the eight
\* entries start, finish for steps 1 to 4 in order.
C28_ProgressLogIsAppendOnly ==
    \A r \in Runs : \A i \in WriteEvents(r) :
        LET written == log[r][i].ao.progress
        IN  /\ \A j \in WriteEvents(r) : j < i => IsPrefix(log[r][j].ao.progress, written)
            /\ IsPrefix(written, FullProgress)
            /\ Len(written) = Cardinality(StartedUpTo(r, i)) + Cardinality(ReturnedBefore(r, i))
            /\ log[r][i].ev = "save" => written = FullProgress

\* a run has written the compiled result with the eight entries after partial
\* writes with logs of one to seven entries, one of which the store refused
C28_Witness ==
    \E r \in Runs :
        /\ SaveEvents(r) # {} /\ FailedWrites(r) # {}
        /\ \A i \in SaveEvents(r) : log[r][i].ao.progress = FullProgress
        /\ Cardinality({Len(log[r][i].ao.progress) : i \in WriteEvents(r)}) = 8

-----------------------------------------------------------------------------
(* The status filter of the Applications tab *)

\* st.selectbox("Filter by Status", [...])
FilterOptions == {"All", "APPROVED", "DENIED", "REFERRED", "PROCESSING"}

\* the rows list_applications returns have the columns of the table; no statement
\* writes a column named decision, so a.get("decision") is None
RowDecision(row) == None

\* filter_status == "All", or a.get("decision") == filter_status
\* or a.get("application_status") == filter_status
FilterSelects(row, filter_status) ==
    \/ filter_status = "All"
    \/ RowDecision(row) = Some(filter_status)
    \/ row.application_status = filter_status

\* C29: every status the orchestrator stores for a finished decision is one the
\* UI filter recognises: a record whose decision mapped to the referred outcome
\* is stored under the status string the filter option for referred applications
\* compares against, and is selected by that option.
C29_ReferredRecordIsSelectedByFilter ==
    \A r \in Runs :
        /\ \A i \in FinalEvents(r) : log[r][i].status \in FilterOptions
        /\ (ReturnedResult(r) /\ aid[r] \in DOMAIN store /\ Last(log[r]).ok
            /\ ~Says(out[r][3], APPROVE) /\ ~Says(out[r][3], DENY))
              => FilterSelects(store[aid[r]], "REFERRED")

-----------------------------------------------------------------------------
(* The records service *)

\* longest table name
MaxTableLen == 3

\* a letter, a digit, the underscore, and characters outside that class
TableChars == {"a", "7", "_", " ", ";", "\n"}

WordChars == {"a", "7", "_"}

TableNames == UNION {[1..n -> TableChars] : n \in 0..MaxTableLen}

\* os.environ.get("TABLE_NAME", "items")
DefaultTable == <<"a">>

\* re.compile(r"^[A-Za-z0-9_]+$").match(name): one or more word characters from
\* the start up to the end of the string, where $ also matches just before a
\* line break that ends the string
TableNameMatches(name) ==
    \/ name # <<>> /\ \A i \in DOMAIN name : name[i] \in WordChars
    \/ /\ Len(name) >= 2
       /\ name[Len(name)] = "\n"
       /\ \A i \in 1..(Len(name) - 1) : name[i] \in WordChars

\* validate_table_name
validate_table_name(name) == TableNameMatches(name)

RecordsFrame == UNCHANGED <<store, pc, orch, aid, applicant, out, progress, exc, ret, received,
                            log, dbFailures, ui, call, conv, cli, lam>>

\* records(table, limit) up to the validation: table_name = table or the
\* default; an invalid name is answered 400
RecordsRequest(table) ==
    /\ mcp.pc = "idle"
    /\ LET table_name == IF table = None \/ table = Some(<<>>) THEN DefaultTable
                         ELSE Val(table)
       IN  mcp' = [mcp EXCEPT !.entry = "endpoint", !.table = table,
                              !.table_name = table_name,
                              !.pc = IF validate_table_name(table_name) THEN "fetch" ELSE "done",
                              !.status = IF validate_table_name(table_name) THEN 0 ELSE 400]
    /\ RecordsFrame

\* fetch_records(engine, table, limit) called by other code
FetchCall(table) ==
    /\ mcp.pc = "idle"
    /\ mcp' = [mcp EXCEPT !.entry = "function", !.table = Some(table), !.table_name = table,
                          !.pc = "fetch"]
    /\ RecordsFrame

\* fetch_records: ValueError for an invalid name, else the SELECT is executed;
\* the endpoint answers 200 with the rows, 500 for any exception
FetchRecords(dbok) ==
    /\ mcp.pc = "fetch"
    /\ IF ~validate_table_name(mcp.table_name)
       THEN mcp' = [mcp EXCEPT !.pc = "done",
                               !.raised = IF mcp.entry = "function" THEN "ValueError" ELSE "",
                               !.status = IF mcp.entry = "endpoint" THEN 500 ELSE 0]
       ELSE mcp' = [mcp EXCEPT !.pc = "done", !.executed = Some(mcp.table_name),
                               !.raised = IF mcp.entry = "function" /\ ~dbok
                                          THEN "DBAPIError" ELSE "",
                               !.status = IF mcp.entry = "function" THEN 0
                                          ELSE IF dbok THEN 200 ELSE 500]
    /\ RecordsFrame

NextRecords ==
    \/ \E table \in {None} \cup {Some(n) : n \in TableNames} : RecordsRequest(table)
    \/ \E table \in TableNames : FetchCall(table)
    \/ \E dbok \in BOOLEAN : FetchRecords(dbok)

SpecRecords == Init /\ [][NextRecords]_vars

\* the name is empty or holds a character that is no letter, digit or underscore
BadTableName(name) == name = <<>> \/ \E i \in DOMAIN name : name[i] \notin WordChars

\* C30: no query is built from a table name that is empty or contains a
\* character outside letters, digits and underscore (whitespace or a line break
\* anywhere, also at the end): for such a name validate_table_name is false,
\* fetch_records raises ValueError and the endpoint answers 400, and no statement
\* is executed.
C30_NoQueryFromInvalidTableName ==
    /\ mcp.executed # None => ~BadTableName(Val(mcp.executed))
    /\ (mcp.pc # "idle" /\ BadTableName(mcp.table_name)) =>
          /\ ~validate_table_name(mcp.table_name)
          /\ mcp.executed = None
          /\ (mcp.pc = "done" /\ mcp.entry = "function") => mcp.raised = "ValueError"
          /\ (mcp.pc = "done" /\ mcp.entry = "endpoint") => mcp.status = 400

====
